---- MODULE Spec2Model ----
(***************************************************************************)
(* Model of the soroban-debugger debugging engine (DebuggerEngine in       *)
(* src/debugger/engine.rs): breakpoint matching, pause/resume tracking and *)
(* execution-trace assembly around one delegated contract execution.       *)
(*                                                                         *)
(* The engine's fields are the variables executor, breakpoints, state,     *)
(* paused and last_trace.  The variable call is a history variable: it     *)
(* records what the most recent operation was, what it was called with and *)
(* what it returned, so that properties of "the last call" can be stated.  *)
(* The args of an execute are recorded when the call completes.  The       *)
(* variable entry_hit is a history variable too: the function of the most  *)
(* recent execute whose entry check found a breakpoint.                    *)
(***************************************************************************)
EXTENDS Naturals, Sequences, FiniteSets, TLC

VARIABLES executor, breakpoints, state, paused, last_trace, call, entry_hit

vars == <<executor, breakpoints, state, paused, last_trace, call, entry_hit>>

(***************************************************************************)
(* Bounds and input sets.                                                  *)
(***************************************************************************)
\* longest initial breakpoint list handed to new()
MaxInitial == 2
\* most events one delegated execution emits
MaxEvents == 2

\* function names; the two differ only in case
Functions == {"transfer", "Transfer"}
\* argument payloads (args is an Option<&str>)
ArgStrings == {"100"}
\* result strings of the executor
Results == {"ok", "done"}
\* errors the executor's calls can fail with
Errors == {"StorageError", "ExecutionError", "EventsError"}
\* storage keys, in their canonical (lexicographic) order
KeyOrder == <<"balance", "sent">>
Keys == {KeyOrder[i] : i \in 1..Len(KeyOrder)}
Values == {"50", "-50", "100"}

\* Option<T>
None == <<>>
Some(x) == <<x>>
IsSome(o) == o # None
Unwrap(o) == o[1]

\* Result<T>
Ok(v) == [ok |-> TRUE, val |-> v]
Err(e) == [ok |-> FALSE, val |-> e]

Absent == "<absent>"
\* a map from storage key to value; a key that maps to Absent is not in it
EmptyMap == [k \in Keys |-> Absent]
MapOf(b, s) == [k \in Keys |-> IF k = "balance" THEN b ELSE s]
\* the contract storage states the executor moves between
StorageStates ==
    { MapOf("50", Absent),
      MapOf("-50", "100") }

\* the k-th event a delegated execution emits
Event(k) == [contract_id |-> "CONTRACT", topics |-> <<k>>, data |-> "payload"]
\* the events of one delegated execution, in emission order
EventLog(n) == [k \in 1..n |-> Event(k)]
\* what BudgetInspector::get_cpu_usage reads from the host after an execution
\* that emitted n events: the more the execution did, the more it consumed
BudgetAfter(n) ==
    [cpu_instructions |-> 10 + n, memory_bytes |-> 20 + 2 * n,
     cpu_limit |-> 100, memory_limit |-> 200]

\* all sequences over S of length at most n
RECURSIVE SeqsUpTo(_, _)
SeqsUpTo(S, n) ==
    IF n = 0 THEN {<<>>}
    ELSE LET shorter == SeqsUpTo(S, n - 1)
         IN  shorter \cup {Append(s, x) : s \in {t \in shorter : Len(t) = n - 1}, x \in S}

(***************************************************************************)
(* BreakpointManager (crate::debugger::breakpoint): a set of names.        *)
(***************************************************************************)
BreakpointManager_new == {}
add(bps, name) == bps \cup {name}
remove(bps, name) == bps \ {name}
should_break(bps, name) == name \in bps

(***************************************************************************)
(* DebugState (crate::debugger::state).                                    *)
(***************************************************************************)
DebugState_new == [current_function |-> None]
set_current_function(st, name) == [st EXCEPT !.current_function = Some(name)]
current_function(st) == st.current_function

(***************************************************************************)
(* ContractExecutor (crate::runtime::executor), at its interface.          *)
(***************************************************************************)
\* the storage as the executor hands it out: (key, value) pairs, sorted by key
RECURSIVE PairsFrom(_, _)
PairsFrom(m, i) ==
    IF i > Len(KeyOrder) THEN <<>>
    ELSE IF m[KeyOrder[i]] = Absent THEN PairsFrom(m, i + 1)
    ELSE <<<<KeyOrder[i], m[KeyOrder[i]]>>>> \o PairsFrom(m, i + 1)
get_storage_snapshot(ex) == PairsFrom(ex.storage, 1)
contract_address(ex) == "CONTRACT"
\* the delegated execution leaves the contract storage in new_storage
executor_execute(ex, new_storage) == [ex EXCEPT !.storage = new_storage]
\* every storage content over the keys and values
AllSnapshots == [Keys -> Values \cup {Absent}]
\* the events the delegated execution emitted, n of them, as get_events reports them
get_events(n) == EventLog(n)

(***************************************************************************)
(* StorageInspector::compute_diff (crate::inspector).                      *)
(***************************************************************************)
\* the value a snapshot holds for key k, Absent if none
RECURSIVE Lookup(_, _)
Lookup(raw, k) ==
    IF raw = <<>> THEN Absent
    ELSE IF Head(raw)[1] = k THEN Head(raw)[2]
    ELSE Lookup(Tail(raw), k)

RECURSIVE DiffFrom(_, _, _)
DiffFrom(before, after, i) ==
    IF i > Len(KeyOrder) THEN <<>>
    ELSE LET k == KeyOrder[i]
             old_value == Lookup(before, k)
             new_value == Lookup(after, k)
             rest == DiffFrom(before, after, i + 1)
         IN  IF old_value = new_value THEN rest
             ELSE IF old_value = Absent
                  THEN <<[key |-> k, kind |-> "Added",
                          old |-> None, new |-> Some(new_value)]>> \o rest
             ELSE IF new_value = Absent
                  THEN <<[key |-> k, kind |-> "Removed",
                          old |-> Some(old_value), new |-> None]>> \o rest
             ELSE <<[key |-> k, kind |-> "Modified",
                     old |-> Some(old_value), new |-> Some(new_value)]>> \o rest
compute_diff(before, after) == DiffFrom(before, after, 1)

(***************************************************************************)
(* DebuggerEngine.                                                         *)
(***************************************************************************)
\* the history record of an operation; the operations fill in their part
NoCall ==
    [op |-> "none", function |-> None, args |-> None, initial |-> <<>>,
     fail |-> "none", result |-> Ok("unit"), paused_at_delegate |-> None,
     diff |-> None, displayed |-> None, emitted |-> None, budget_info |-> None,
     steps |-> <<>>, raised |-> None, delegate_result |-> None]

\* (mutant) only the first initial breakpoint is registered
AddAllFirstOnly(bps, list) ==
    IF list = <<>> THEN bps ELSE add(bps, Head(list))

\* for bp in initial_breakpoints { breakpoints.add(&bp) }
RECURSIVE AddAll(_, _)
AddAll(bps, list) ==
    IF list = <<>> THEN bps ELSE AddAll(add(bps, Head(list)), Tail(list))

new(ex, initial_breakpoints) ==
    [executor |-> ex,
     breakpoints |-> AddAll(BreakpointManager_new, initial_breakpoints),
     state |-> DebugState_new,
     paused |-> FALSE,
     last_trace |-> None]

\* for (k, v) in &raw { map.insert(k.clone(), v.clone()) }
RECURSIVE ToBTreeMap(_)
ToBTreeMap(raw) ==
    IF raw = <<>> THEN EmptyMap
    ELSE LET n == Len(raw)
         IN  [ToBTreeMap(SubSeq(raw, 1, n - 1)) EXCEPT ![raw[n][1]] = raw[n][2]]

\* (mutant) pausing raises the flag and records no current function
pause_at_functionFlagOnly(eng, function) == [eng EXCEPT !.paused = TRUE]

pause_at_function(eng, function) ==
    [eng EXCEPT !.paused = TRUE,
                !.state = set_current_function(eng.state, function)]

\* (mutant) a breakpoint is one-shot: hitting it takes it out of the set
EntryCheckOneShot(eng, function) ==
    IF should_break(eng.breakpoints, function)
    THEN [pause_at_function(eng, function) EXCEPT
             !.breakpoints = remove(eng.breakpoints, function)]
    ELSE eng

\* (mutant) an engine that is paused already keeps its current function
EntryCheckKeepsFirst(eng, function) ==
    IF should_break(eng.breakpoints, function) /\ ~eng.paused
    THEN pause_at_function(eng, function)
    ELSE eng

\* (mutant) the entry check never pauses
EntryCheckNever(eng, function) == eng

\* (mutant) the entry check sets the pause flag to the outcome of should_break
EntryCheckResetting(eng, function) ==
    IF should_break(eng.breakpoints, function)
    THEN pause_at_function(eng, function)
    ELSE [eng EXCEPT !.paused = FALSE]

\* if self.breakpoints.should_break(function) { self.pause_at_function(function) }
EntryCheck(eng, function) ==
    IF should_break(eng.breakpoints, function)
    THEN pause_at_function(eng, function)
    ELSE eng

BudgetTraceOf(budget_info) ==
    [cpu_instructions |-> budget_info.cpu_instructions,
     memory_bytes |-> budget_info.memory_bytes,
     cpu_limit |-> Some(budget_info.cpu_limit),
     memory_limit |-> Some(budget_info.memory_limit)]

\* (mutant) the entries are collected newest first
EventEntriesReversed(events_raw) ==
    [i \in 1..Len(events_raw) |->
        [contract_id |-> events_raw[Len(events_raw) + 1 - i].contract_id,
         topics |-> events_raw[Len(events_raw) + 1 - i].topics,
         data |-> Some(events_raw[Len(events_raw) + 1 - i].data)]]

EventEntries(events_raw) ==
    [i \in 1..Len(events_raw) |->
        [contract_id |-> events_raw[i].contract_id,
         topics |-> events_raw[i].topics,
         data |-> Some(events_raw[i].data)]]

\* (mutant) the call entry carries no budget and sits one level down
BuildTraceNestedCall(function, args, storage_before, storage_after, budget_trace, events, result, address) ==
    [version |-> "1.0",
     label |-> Some(<<"Execution of ", function>>),
     contract |-> Some(address),
     function |-> Some(function),
     args |-> args,
     storage_before |-> storage_before,
     storage |-> storage_after,
     budget |-> Some(budget_trace),
     return_value |-> Some(result),
     call_sequence |->
         <<[function |-> function, args |-> args, depth |-> 1,
            budget |-> None]>>,
     events |-> events]

\* (mutant) the trace records the called function's name as the outcome
BuildTraceNameAsReturn(function, args, storage_before, storage_after, budget_trace, events, result, address) ==
    [version |-> "1.0",
     label |-> Some(<<"Execution of ", function>>),
     contract |-> Some(address),
     function |-> Some(function),
     args |-> args,
     storage_before |-> storage_before,
     storage |-> storage_after,
     budget |-> Some(budget_trace),
     return_value |-> Some(function),
     call_sequence |->
         <<[function |-> function, args |-> args, depth |-> 0,
            budget |-> Some(budget_trace)]>>,
     events |-> events]

\* (mutant) the two snapshots end up in each other's field
BuildTraceSwapped(function, args, storage_before, storage_after, budget_trace, events, result, address) ==
    [version |-> "1.0",
     label |-> Some(<<"Execution of ", function>>),
     contract |-> Some(address),
     function |-> Some(function),
     args |-> args,
     storage_before |-> storage_after,
     storage |-> storage_before,
     budget |-> Some(budget_trace),
     return_value |-> Some(result),
     call_sequence |->
         <<[function |-> function, args |-> args, depth |-> 0,
            budget |-> Some(budget_trace)]>>,
     events |-> events]

BuildTrace(function, args, storage_before, storage_after, budget_trace, events, result, address) ==
    [version |-> "1.0",
     label |-> Some(<<"Execution of ", function>>),
     contract |-> Some(address),
     function |-> Some(function),
     args |-> args,
     storage_before |-> storage_before,
     storage |-> storage_after,
     budget |-> Some(budget_trace),
     return_value |-> Some(result),
     call_sequence |->
         <<[function |-> function, args |-> args, depth |-> 0,
            budget |-> Some(budget_trace)]>>,
     events |-> events]

\* (mutant) a stored trace is patched with the new call's outcome, not replaced
StoreTracePatching(eng, trace) ==
    IF IsSome(eng.last_trace)
    THEN [eng EXCEPT !.last_trace =
             Some([Unwrap(eng.last_trace) EXCEPT !.storage = trace.storage,
                                                !.return_value = trace.return_value])]
    ELSE [eng EXCEPT !.last_trace = Some(trace)]

\* self.last_trace = Some(trace.clone())
StoreTrace(eng, trace) == [eng EXCEPT !.last_trace = Some(trace)]

\* The executor calls of execute that can fail, each with the position of its
\* `?` in the sequence of steps: 1 before-snapshot, 2 breakpoint check,
\* 3 delegated execution, 4 after-snapshot, 5 budget, 6 events, 7 store, 8 diff.
\* An error returns from execute at that step; "none" runs past the last one.
FailPoints == {"none", "before", "exec", "after", "events"}
\* (mutant) the event read's error is looked at only after the trace is stored
FailStepEventsLate(fail) ==
    CASE fail = "before" -> 1
      [] fail = "exec"   -> 3
      [] fail = "after"  -> 4
      [] fail = "events" -> 8
      [] OTHER           -> 9
\* (mutant) the breakpoint check runs before the before-snapshot is read
FailStepBeforeLate(fail) ==
    CASE fail = "before" -> 2
      [] fail = "exec"   -> 3
      [] fail = "after"  -> 4
      [] fail = "events" -> 6
      [] OTHER           -> 9
FailStep(fail) ==
    CASE fail = "before" -> 1
      [] fail = "exec"   -> 3
      [] fail = "after"  -> 4
      [] fail = "events" -> 6
      [] OTHER           -> 9

\* the steps of execute in the order the code takes them: lines 44, 51, 56, 59,
\* 67, 76, 106 and 109
\* (mutant) the breakpoint check comes after the delegated execution
StepOrderCheckLate ==
    <<"snapshot_before", "execute", "breakpoint_check", "snapshot_after",
      "budget", "events", "store", "diff">>
StepOrder ==
    <<"snapshot_before", "breakpoint_check", "execute", "snapshot_after",
      "budget", "events", "store", "diff">>
\* the steps an execute that returns at step `at` has taken, that one included
StepsUpTo(at) == SubSeq(StepOrder, 1, IF at < Len(StepOrder) THEN at ELSE Len(StepOrder))

\* whether an execute that returns at step `at` has taken step s
Took(at, s) == \E i \in 1..Len(StepsUpTo(at)) : StepsUpTo(at)[i] = s

\* (mutant) the engine reports a failure of its own in place of the executor's
PropagateGeneric(e) == "EngineError"

\* the `?` operator hands the error of the failed call to the caller as it is
Propagate(e) == e

\* the errors the executor call at each failure point can fail with
ErrorsOf(fail) ==
    CASE fail \in {"before", "after"} -> {"StorageError"}
      [] fail = "exec"                -> {"ExecutionError"}
      [] fail = "events"              -> {"EventsError"}
      [] OTHER                        -> {}

\* what the environment decides in one execute: which executor call fails (and
\* with what), and what the delegated execution does and returns
Env(fail, new_storage, n, info, result, err) ==
    [fail |-> fail, new_storage |-> new_storage, n |-> n, info |-> info,
     result |-> result, err |-> err]
\* a run that fails never gets to use what it did not reach
Unused == Env("none", CHOOSE s \in StorageStates : TRUE, 0, BudgetAfter(0),
              CHOOSE r \in Results : TRUE, CHOOSE e \in Errors : TRUE)
Envs ==
    {[Unused EXCEPT !.fail = "before", !.err = e] : e \in ErrorsOf("before")}
    \cup UNION {{[Unused EXCEPT !.fail = f, !.err = e, !.new_storage = s] :
                    e \in ErrorsOf(f), s \in StorageStates} :
                 f \in {"exec", "after", "events"}}
    \cup {Env("none", s, n, BudgetAfter(n), r, Unused.err) :
             s \in StorageStates, n \in 0..MaxEvents, r \in Results}

\* (mutant) the diff is computed against an empty before-snapshot
StorageDiffFromEmpty(storage_before_raw, storage_after_raw) ==
    compute_diff(<<>>, storage_after_raw)

\* (mutant) the snapshots are handed to compute_diff the wrong way round
StorageDiffBackwards(storage_before_raw, storage_after_raw) ==
    compute_diff(storage_after_raw, storage_before_raw)

\* StorageInspector::compute_diff(&storage_before_raw, &storage_after_raw)
StorageDiff(storage_before_raw, storage_after_raw) ==
    compute_diff(storage_before_raw, storage_after_raw)

\* the diff handed to display_diff, if any: if !diff.is_empty() { display_diff(&diff) }
\* (mutant) the diff is displayed even when it is empty
DisplayedAlways(diff) == Some(diff)

\* if !diff.is_empty() { display_diff(&diff) }
Displayed(diff) == IF diff # <<>> THEN Some(diff) ELSE None

\* execute(&mut self, function, args): the engine afterwards, the value
\* returned, and what was observable on the way
execute(eng, function, args, env) ==
    LET at == FailStep(env.fail)
        storage_before_raw == get_storage_snapshot(eng.executor)
        storage_before == ToBTreeMap(storage_before_raw)
        eng1 == IF Took(at, "breakpoint_check") THEN EntryCheck(eng, function) ELSE eng
        eng2 == IF Took(at, "execute")
                THEN [eng1 EXCEPT !.executor =
                         executor_execute(eng1.executor, env.new_storage)]
                ELSE eng1
        result == env.result
        storage_after_raw == get_storage_snapshot(eng2.executor)
        storage_after == ToBTreeMap(storage_after_raw)
        budget_trace == BudgetTraceOf(env.info)
        events == EventEntries(get_events(env.n))
        trace == BuildTrace(function, args, storage_before, storage_after,
                            budget_trace, events, result,
                            contract_address(eng2.executor))
        eng3 == IF Took(at, "store") THEN StoreTrace(eng2, trace) ELSE eng2
        diff == StorageDiff(storage_before_raw, storage_after_raw)
    IN  [eng |-> eng3,
         result |-> IF env.fail = "none" THEN Ok(result) ELSE Err(Propagate(env.err)),
         paused_at_delegate |-> IF Took(at, "execute") THEN Some(eng1.paused) ELSE None,
         diff |-> IF at > 8 THEN Some(diff) ELSE None,
         displayed |-> IF at > 8 THEN Displayed(diff) ELSE None,
         emitted |-> IF at > 6 THEN Some(get_events(env.n)) ELSE None,
         budget_info |-> IF at > 5 THEN Some(env.info) ELSE None,
         steps |-> StepsUpTo(at)
                   \o (IF at > 8 /\ IsSome(Displayed(diff))
                       THEN <<"display_diff">> ELSE <<>>),
         raised |-> IF env.fail = "none" THEN None ELSE Some(env.err),
         delegate_result |-> IF at > 3 THEN Some(env.result) ELSE None]

\* (mutant) resuming also clears the Debug State's current function
stepClearing(eng) ==
    [eng EXCEPT !.paused = FALSE, !.state = DebugState_new]

step(eng) == [eng EXCEPT !.paused = FALSE]

continue_execution(eng) == [eng EXCEPT !.paused = FALSE]

is_paused(eng) == eng.paused

get_last_trace(eng) == eng.last_trace

\* the engine as one record, and back
Engine ==
    [executor |-> executor, breakpoints |-> breakpoints, state |-> state,
     paused |-> paused, last_trace |-> last_trace]

Becomes(eng) ==
    /\ executor' = eng.executor
    /\ breakpoints' = eng.breakpoints
    /\ state' = eng.state
    /\ paused' = eng.paused
    /\ last_trace' = eng.last_trace

(***************************************************************************)
(* The operations, as the engine's callers see them.                       *)
(***************************************************************************)
\* the executor the engine is built around, with the contract storage it holds
Executors == { [storage |-> s] : s \in StorageStates }

Init ==
    \E ex \in Executors, initial \in SeqsUpTo(Functions, MaxInitial) :
        LET eng == new(ex, initial)
        IN  /\ executor = eng.executor
            /\ breakpoints = eng.breakpoints
            /\ state = eng.state
            /\ paused = eng.paused
            /\ last_trace = eng.last_trace
            /\ call = [NoCall EXCEPT !.op = "new", !.initial = initial]
            /\ entry_hit = None

Execute(function, args, env) ==
    \E out \in {execute(Engine, function, args, env)} :
        /\ Becomes(out.eng)
        /\ call' = [NoCall EXCEPT !.op = "execute",
                                  !.function = Some(function),
                                  !.args = IF out.result.ok THEN args ELSE None,
                                  !.fail = env.fail,
                                  !.result = out.result,
                                  !.paused_at_delegate = out.paused_at_delegate,
                                  !.diff = out.diff,
                                  !.displayed = out.displayed,
                                  !.emitted = out.emitted,
                                  !.budget_info = out.budget_info,
                                  !.steps = out.steps,
                                  !.raised = out.raised,
                                  !.delegate_result = out.delegate_result]
        /\ entry_hit' = IF /\ \E i \in 1..Len(out.steps) : out.steps[i] = "breakpoint_check"
                           /\ should_break(breakpoints, function)
                        THEN Some(function)
                        ELSE entry_hit

Step ==
    /\ Becomes(step(Engine))
    /\ call' = [NoCall EXCEPT !.op = "step"]
    /\ UNCHANGED entry_hit

ContinueExecution ==
    /\ Becomes(continue_execution(Engine))
    /\ call' = [NoCall EXCEPT !.op = "continue_execution"]
    /\ UNCHANGED entry_hit

\* engine.breakpoints_mut().add(name)
AddBreakpoint(name) ==
    /\ Becomes([Engine EXCEPT !.breakpoints = add(breakpoints, name)])
    /\ call' = [NoCall EXCEPT !.op = "add", !.function = Some(name)]
    /\ UNCHANGED entry_hit

\* engine.breakpoints_mut().remove(name)
RemoveBreakpoint(name) ==
    /\ Becomes([Engine EXCEPT !.breakpoints = remove(breakpoints, name)])
    /\ call' = [NoCall EXCEPT !.op = "remove", !.function = Some(name)]
    /\ UNCHANGED entry_hit

Next ==
    \/ \E function \in Functions, args \in {None} \cup {Some(a) : a \in ArgStrings},
          env \in Envs :
          Execute(function, args, env)
    \/ Step
    \/ ContinueExecution
    \/ \E name \in Functions : AddBreakpoint(name)
    \/ \E name \in Functions : RemoveBreakpoint(name)

Spec == Init /\ [][Next]_vars

(***************************************************************************)
(* The engine run over every pair of storage contents: a new engine around *)
(* any storage, and executions that succeed and leave any storage behind.  *)
(***************************************************************************)
InitDiff ==
    \E s \in AllSnapshots :
        LET eng == new([storage |-> s], <<>>)
        IN  /\ executor = eng.executor
            /\ breakpoints = eng.breakpoints
            /\ state = eng.state
            /\ paused = eng.paused
            /\ last_trace = eng.last_trace
            /\ call = [NoCall EXCEPT !.op = "new"]
            /\ entry_hit = None

NextDiff ==
    \E s \in AllSnapshots :
        Execute("transfer", Some("100"), [Unused EXCEPT !.new_storage = s])

SpecDiff == InitDiff /\ [][NextDiff]_vars

(***************************************************************************)
(* Properties.                                                             *)
(***************************************************************************)
ExecutedOk == call.op = "execute" /\ call.result.ok
ExecuteFailed == call.op = "execute" /\ ~call.result.ok
\* the map a raw snapshot stands for
ContentOf(raw) == [k \in Keys |-> Lookup(raw, k)]

\* C1: an execute that fails (in the delegated execution, in either snapshot
\* read or in the event read) leaves last_trace exactly as it was.
C1_FailureKeepsTrace ==
    [][(call'.op = "execute" /\ ~call'.result.ok) => last_trace' = last_trace]_vars

\* a failed execute, at the last fallible step, with an older trace of another
\* function still in the slot
C1_Witness ==
    /\ ExecuteFailed
    /\ call.fail = "events"
    /\ IsSome(last_trace)
    /\ Unwrap(last_trace).function # call.function

\* C2: after a successful execute(f, args) last_trace is Some, with function f,
\* args args, storage_before the executor's snapshot from just before the
\* delegated execution and storage its snapshot from just after it.
C2_TraceOfSuccess ==
    [][(call'.op = "execute" /\ call'.result.ok) =>
          /\ IsSome(last_trace')
          /\ Unwrap(last_trace').function = call'.function
          /\ Unwrap(last_trace').args = call'.args
          /\ Unwrap(last_trace').storage_before = ContentOf(get_storage_snapshot(executor))
          /\ Unwrap(last_trace').storage = ContentOf(get_storage_snapshot(executor'))]_vars

\* execute("transfer", None) succeeded and changed the storage
C2_Witness ==
    /\ ExecutedOk
    /\ call.function = Some("transfer")
    /\ call.args = None
    /\ IsSome(last_trace)
    /\ Unwrap(last_trace).storage_before # Unwrap(last_trace).storage
    /\ Unwrap(last_trace).storage = executor.storage

\* C3: when execute is called on a breakpointed function, the engine is already
\* paused when the delegated execution is invoked and still paused when execute
\* returns; after step() and after continue_execution() it is not paused.
C3_PausedBeforeDelegate ==
    /\ (/\ call.op = "execute"
        /\ IsSome(call.paused_at_delegate)
        /\ should_break(breakpoints, Unwrap(call.function)))
       => (call.paused_at_delegate = Some(TRUE) /\ is_paused(Engine))
    /\ call.op \in {"step", "continue_execution"} => ~is_paused(Engine)

\* a breakpointed function was executed and the engine sits paused at it
C3_Witness ==
    /\ ExecutedOk
    /\ should_break(breakpoints, Unwrap(call.function))
    /\ call.paused_at_delegate = Some(TRUE)
    /\ is_paused(Engine)

\* the trace a successful execute is to leave in the slot, from what the call
\* was given, the storage around it and what the executor reported
TraceOfCall(c, storage_before, storage_after) ==
    BuildTrace(Unwrap(c.function), c.args, storage_before, storage_after,
               BudgetTraceOf(Unwrap(c.budget_info)),
               EventEntries(Unwrap(c.emitted)), c.result.val, "CONTRACT")

\* C4: the slot is empty on a new engine; it changes only by a successful
\* execute, which puts exactly the trace it built there (nothing of the older
\* trace is left); and once filled it is never empty again.
C4_SingleSlot ==
    /\ last_trace = None
    /\ [][/\ last_trace' # last_trace => (call'.op = "execute" /\ call'.result.ok)
          /\ (call'.op = "execute" /\ call'.result.ok) =>
                 last_trace' = Some(TraceOfCall(call', executor.storage, executor'.storage))
          /\ IsSome(last_trace) => IsSome(last_trace')]_vars

\* a successful execute whose trace is in the slot
C4_Witness ==
    /\ ExecutedOk
    /\ IsSome(last_trace)
    /\ Unwrap(last_trace).function = call.function
    /\ Len(Unwrap(last_trace).events) = MaxEvents

\* C5 as claimed: in every reachable state the Debug State's current function
\* is present if and only if the engine is paused (set on pausing, cleared on
\* resume).
C5_CurrentFunctionIffPaused ==
    IsSome(current_function(state)) <=> is_paused(Engine)

\* C5 as amended: the current function is set exactly when an execute hits a
\* breakpoint and pauses the engine, and it is never cleared; step() and
\* continue_execution() leave it in place.  So a paused engine always has a
\* current function, and a resumed one still has it.
C5_CurrentFunctionSetOnPause ==
    /\ [](is_paused(Engine) => IsSome(current_function(state)))
    /\ [][/\ state' # state =>
                 /\ call'.op = "execute"
                 /\ paused'
                 /\ current_function(state') = call'.function
          /\ IsSome(current_function(state)) => IsSome(current_function(state'))
          /\ (paused' /\ ~paused) => current_function(state') = call'.function]_vars

\* the engine was resumed by continue_execution() and the current function is
\* still recorded
C5_Witness ==
    /\ call.op = "continue_execution"
    /\ ~is_paused(Engine)
    /\ current_function(state) = Some("transfer")

\* C6: step() and continue_execution() succeed, leave the pause flag false and
\* change nothing else: not the breakpoint set, the Debug State's current
\* function, last_trace or the executor's storage.
C6_ResumeFrame ==
    [][call'.op \in {"step", "continue_execution"} =>
          /\ call'.result.ok
          /\ ~paused'
          /\ UNCHANGED <<breakpoints, state, last_trace, executor>>]_vars

\* step() on a paused engine that holds a trace: the flag is down, the current
\* function and the trace are still there
C6_Witness ==
    /\ call.op = "step"
    /\ ~is_paused(Engine)
    /\ IsSome(current_function(state))
    /\ IsSome(last_trace)
    /\ breakpoints # {}

\* C7 as claimed: after a successful execute(f, args) the engine is paused if
\* and only if f is in the breakpoint set, whatever the flag was before.
C7_PausedIffBreakpoint ==
    ExecutedOk => (is_paused(Engine) <=> should_break(breakpoints, Unwrap(call.function)))

\* C7 as amended: after a successful execute(f, args) the engine is paused if
\* and only if f was in the breakpoint set at the call or the flag was already
\* up before it; execute raises the flag at the entry check and never lowers it.
C7_PausedIffBreakpointOrBefore ==
    [][(call'.op = "execute" /\ call'.result.ok) =>
          (paused' <=> (should_break(breakpoints, Unwrap(call'.function)) \/ paused))]_vars

\* a successful execute of a function without a breakpoint, on an engine that
\* was paused before the call and still is
C7_Witness ==
    /\ ExecutedOk
    /\ ~should_break(breakpoints, Unwrap(call.function))
    /\ is_paused(Engine)

\* C8: a failed execute changes nothing but what the entry check did.  If the
\* before-snapshot read failed, or f has no breakpoint, the pause flag and the
\* current function are as before; if f has a breakpoint and the failure came
\* at the delegated execution or later, the flag is up and the current
\* function is f.  The breakpoint set and last_trace are as before.
C8_FailureFrame ==
    [][(call'.op = "execute" /\ ~call'.result.ok) =>
          LET f == Unwrap(call'.function)
              hit == should_break(breakpoints, f)
          IN  /\ (call'.fail = "before" \/ ~hit) =>
                     (paused' = paused /\ state' = state)
              /\ (call'.fail # "before" /\ hit) =>
                     (paused' /\ current_function(state') = Some(f))
              /\ breakpoints' = breakpoints
              /\ last_trace' = last_trace]_vars

\* execute of a breakpointed function failed in the delegated execution: the
\* engine is paused at it, the older trace of the other function is kept
C8_Witness ==
    /\ ExecuteFailed
    /\ call.fail = "exec"
    /\ should_break(breakpoints, Unwrap(call.function))
    /\ is_paused(Engine)
    /\ current_function(state) = call.function
    /\ IsSome(last_trace)
    /\ Unwrap(last_trace).function # call.function

\* C9: should_break(name) holds exactly for the names of the initial list and
\* the names added, as long as they were not removed since: right after new()
\* the set is the initial list's names; add(n) makes n (and only n) a member,
\* remove(n) makes n (and only n) a non-member, no other operation changes
\* membership; names that differ in case are different names.
C9_Membership ==
    /\ [](call.op = "new" =>
            \A n \in Functions :
                should_break(breakpoints, n) <=> \E i \in 1..Len(call.initial) : call.initial[i] = n)
    /\ [][\A n \in Functions :
             should_break(breakpoints', n) <=>
                 \/ call'.op = "add" /\ call'.function = Some(n)
                 \/ /\ should_break(breakpoints, n)
                    /\ ~(call'.op = "remove" /\ call'.function = Some(n))]_vars

\* "Transfer" was removed while only "transfer" was registered: nothing
\* changed, "transfer" still breaks and "Transfer" does not
C9_Witness ==
    /\ call.op = "remove"
    /\ call.function = Some("Transfer")
    /\ should_break(breakpoints, "transfer")
    /\ ~should_break(breakpoints, "Transfer")

\* the entries of diff d for key k
EntriesFor(d, k) == {i \in 1..Len(d) : d[i].key = k}
\* how a key changes from content A to content B
KindOf(A, B, k) ==
    CASE A[k] = Absent -> "Added"
      [] B[k] = Absent -> "Removed"
      [] OTHER         -> "Modified"

\* C10: the diff of a snapshot with itself is empty; the diff of A and B has
\* exactly one entry for each key A and B disagree on and none for any other
\* key, tagged Added when the key is only in B, Removed when it is only in A,
\* Modified when it is in both with different values.
C10_DiffExact ==
    ExecutedOk =>
        LET d == Unwrap(call.diff)
            A == Unwrap(last_trace).storage_before
            B == Unwrap(last_trace).storage
        IN  /\ A = B => d = <<>>
            /\ \A k \in Keys :
                   Cardinality(EntriesFor(d, k)) = IF A[k] # B[k] THEN 1 ELSE 0
            /\ \A i \in 1..Len(d) :
                   /\ d[i].key \in Keys
                   /\ d[i].kind = KindOf(A, B, d[i].key)

\* balance 50 -> -50 and sent added: the diff reports balance Modified and
\* sent Added
C10_Witness ==
    /\ ExecutedOk
    /\ Unwrap(last_trace).storage_before = MapOf("50", Absent)
    /\ Unwrap(last_trace).storage = MapOf("-50", "100")
    /\ Len(Unwrap(call.diff)) = Len(KeyOrder)
    /\ \E i, j \in 1..Len(Unwrap(call.diff)) :
           /\ Unwrap(call.diff)[i].key = "balance"
           /\ Unwrap(call.diff)[i].kind = "Modified"
           /\ Unwrap(call.diff)[j].key = "sent"
           /\ Unwrap(call.diff)[j].kind = "Added"

\* the keys diff d reports
KeysOf(d) == {d[i].key : i \in 1..Len(d)}
\* the tag of a change seen from the other side
Mirror(kind) ==
    CASE kind = "Added"   -> "Removed"
      [] kind = "Removed" -> "Added"
      [] OTHER            -> kind

\* C11: the diff of A and B and the diff of B and A report the same keys, with
\* Added and Removed swapped and Modified kept.  Stated of two executions in a
\* row, the second taking the storage back from B to A.
C11_DiffMirrored ==
    [][(/\ ExecutedOk
        /\ call'.op = "execute" /\ call'.result.ok
        /\ Unwrap(last_trace').storage_before = Unwrap(last_trace).storage
        /\ Unwrap(last_trace').storage = Unwrap(last_trace).storage_before)
       => LET d1 == Unwrap(call.diff)
              d2 == Unwrap(call'.diff)
          IN  /\ KeysOf(d1) = KeysOf(d2)
              /\ \A i \in 1..Len(d1), j \in 1..Len(d2) :
                     d1[i].key = d2[j].key => d2[j].kind = Mirror(d1[i].kind)]_vars

\* the way back of the balance/sent example: balance Modified, sent Removed
C11_Witness ==
    /\ ExecutedOk
    /\ Unwrap(last_trace).storage_before = MapOf("-50", "100")
    /\ Unwrap(last_trace).storage = MapOf("50", Absent)
    /\ KeysOf(Unwrap(call.diff)) = Keys
    /\ \E i, j \in 1..Len(Unwrap(call.diff)) :
           /\ Unwrap(call.diff)[i].key = "balance"
           /\ Unwrap(call.diff)[i].kind = "Modified"
           /\ Unwrap(call.diff)[j].key = "sent"
           /\ Unwrap(call.diff)[j].kind = "Removed"

\* the step at which each fallible executor call is made
FailingStep(fail) ==
    CASE fail = "before" -> "snapshot_before"
      [] fail = "exec"   -> "execute"
      [] fail = "after"  -> "snapshot_after"
      [] OTHER           -> "events"
\* how often step s was taken
Times(steps, s) == Cardinality({i \in 1..Len(steps) : steps[i] = s})
\* the order of the steps of execute
ClaimedOrder ==
    <<"snapshot_before", "breakpoint_check", "execute", "snapshot_after",
      "budget", "events", "store", "diff", "display_diff">>
\* steps follows ClaimedOrder: no step twice, none ahead of an earlier one
InClaimedOrder(steps) ==
    \A i, j \in 1..Len(steps) :
        i < j => \E a, b \in 1..Len(ClaimedOrder) :
                    a < b /\ ClaimedOrder[a] = steps[i] /\ ClaimedOrder[b] = steps[j]

\* C12: when a call to the executor fails, execute returns that very error,
\* the failed call is the last step taken and was made once: no retry, no
\* later step.
C12_FailFast ==
    ExecuteFailed =>
        /\ IsSome(call.raised)
        /\ call.result = Err(Unwrap(call.raised))
        /\ Len(call.steps) > 0
        /\ call.steps[Len(call.steps)] = FailingStep(call.fail)
        /\ Times(call.steps, FailingStep(call.fail)) = 1
        /\ \A s \in {"store", "diff", "display_diff"} : Times(call.steps, s) = 0

\* the after-snapshot read failed with a storage error, right after the
\* delegated execution
C12_Witness ==
    /\ ExecuteFailed
    /\ call.fail = "after"
    /\ call.result = Err("StorageError")
    /\ call.steps = <<"snapshot_before", "breakpoint_check", "execute", "snapshot_after">>

\* C13: the steps of every execute come in the order before-snapshot,
\* breakpoint check, delegated execution, after-snapshot, budget, events,
\* store, diff; the check is made once; the delegated execution is made at most
\* once, exactly once when execute succeeds and never when the before-snapshot
\* read fails.
C13_StepOrder ==
    call.op = "execute" =>
        /\ InClaimedOrder(call.steps)
        /\ call.steps[1] = "snapshot_before"
        /\ Times(call.steps, "breakpoint_check") <= 1
        /\ Times(call.steps, "execute") <= 1
        /\ call.result.ok =>
               \A i \in 1..8 : Times(call.steps, ClaimedOrder[i]) = 1
        /\ call.fail = "before" => Times(call.steps, "execute") = 0
        /\ Times(call.steps, "execute") = 1 <=> IsSome(call.paused_at_delegate)
        /\ Times(call.steps, "execute") = 1 => Times(call.steps, "breakpoint_check") = 1

\* a successful execute that took all the steps and displayed the diff
C13_Witness ==
    /\ ExecutedOk
    /\ call.steps = ClaimedOrder

\* C14: the call sequence of every stored trace has exactly one entry, at depth
\* 0, with the trace's function and arguments and a budget equal to the
\* trace's budget; after a successful execute these are the call's own.
C14_SingleCallEntry ==
    /\ IsSome(last_trace) =>
           LET t == Unwrap(last_trace)
           IN  /\ Len(t.call_sequence) = 1
               /\ t.call_sequence[1].depth = 0
               /\ Some(t.call_sequence[1].function) = t.function
               /\ t.call_sequence[1].args = t.args
               /\ IsSome(t.budget)
               /\ t.call_sequence[1].budget = t.budget
    /\ ExecutedOk =>
           /\ Some(Unwrap(last_trace).call_sequence[1].function) = call.function
           /\ Unwrap(last_trace).call_sequence[1].args = call.args
           /\ Unwrap(last_trace).call_sequence[1].budget
                  = Some(BudgetTraceOf(Unwrap(call.budget_info)))

\* a trace of "Transfer" called with an argument string
C14_Witness ==
    /\ ExecutedOk
    /\ call.function = Some("Transfer")
    /\ Unwrap(last_trace).call_sequence[1].function = "Transfer"
    /\ Unwrap(last_trace).call_sequence[1].args = Some("100")

\* C15: a successful execute returns the string the delegated execution
\* produced, the stored trace's return value is that string and its version
\* is "1.0".
C15_ResultUnchanged ==
    ExecutedOk =>
        /\ IsSome(call.delegate_result)
        /\ call.result = Ok(Unwrap(call.delegate_result))
        /\ Unwrap(last_trace).return_value = call.delegate_result
        /\ Unwrap(last_trace).version = "1.0"

\* the delegated execution produced "done"
C15_Witness ==
    /\ ExecutedOk
    /\ call.delegate_result = Some("done")
    /\ call.result = Ok("done")
    /\ Unwrap(last_trace).return_value = Some("done")

\* C16: the events of the trace of a successful execute are the events emitted
\* during that call: one entry for each, in the order of emission, with the
\* event's contract id, topics and data.
C16_EventsOfCall ==
    ExecutedOk =>
        LET emitted == Unwrap(call.emitted)
            events  == Unwrap(last_trace).events
        IN  /\ Len(events) = Len(emitted)
            /\ \A i \in 1..Len(emitted) :
                   /\ events[i].contract_id = emitted[i].contract_id
                   /\ events[i].topics = emitted[i].topics
                   /\ events[i].data = Some(emitted[i].data)

\* a call that emitted as many events as the bound allows, no two alike
C16_Witness ==
    /\ ExecutedOk
    /\ Len(Unwrap(call.emitted)) = MaxEvents
    /\ Len(Unwrap(last_trace).events) = MaxEvents
    /\ Unwrap(last_trace).events[1] # Unwrap(last_trace).events[MaxEvents]

\* the place of step s in steps, 0 when it was not taken
PlaceOf(steps, s) ==
    IF \E i \in 1..Len(steps) : steps[i] = s
    THEN CHOOSE i \in 1..Len(steps) : steps[i] = s
    ELSE 0

C18_CurrentIsLatestRegistered ==
    (/\ paused
     /\ call.op = "execute"
     /\ should_break(breakpoints, Unwrap(call.function)))
    => current_function(state) = call.function

\* C18, amended: whenever the engine is paused, the current function is
\* present and is the function of the most recent execute that reached the
\* entry-breakpoint check with its function in the breakpoint set.
C18_CurrentIsLatestHit ==
    paused =>
        /\ IsSome(current_function(state))
        /\ current_function(state) = entry_hit

\* paused at one function while the execute of another registered function
\* failed at the before-snapshot read
C18_Witness ==
    /\ paused
    /\ ExecuteFailed
    /\ call.fail = "before"
    /\ should_break(breakpoints, Unwrap(call.function))
    /\ IsSome(current_function(state))
    /\ current_function(state) = entry_hit
    /\ current_function(state) # call.function

\* C19 as stated, in part: an execute of a registered function that paused
\* the engine before pauses it again.
C19_EveryExecutePauses ==
    (/\ call.op = "execute"
     /\ should_break(breakpoints, Unwrap(call.function))
     /\ entry_hit = call.function)
    => paused

\* C19, amended: execute, step and continue_execution leave the breakpoint
\* set as it is, so every execute of a registered function that gets past
\* the before-snapshot read pauses; adding or removing a breakpoint changes
\* neither the pause flag, the Debug State nor last_trace.
C19_BreakpointsPersist ==
    [][/\ call'.op \in {"execute", "step", "continue_execution"} =>
              breakpoints' = breakpoints
       /\ (/\ call'.op = "execute"
           /\ should_break(breakpoints, Unwrap(call'.function))
           /\ Times(call'.steps, "breakpoint_check") = 1)
          => /\ paused'
             /\ current_function(state') = call'.function
             /\ should_break(breakpoints', Unwrap(call'.function))
       /\ call'.op \in {"add", "remove"} =>
              /\ paused' = paused
              /\ state' = state
              /\ last_trace' = last_trace]_vars

\* a second execute of a registered function, failed after the entry check:
\* the engine is paused at it, the breakpoint is still set and the trace of
\* the first execute is still stored
C19_Witness ==
    /\ ExecuteFailed
    /\ call.fail = "exec"
    /\ paused
    /\ should_break(breakpoints, Unwrap(call.function))
    /\ current_function(state) = call.function
    /\ IsSome(last_trace)
    /\ Unwrap(last_trace).function = call.function

====
